---------------------------- MODULE Spec2Model ----------------------------
(***************************************************************************)
(* Model of the CETE0/SP Raspberry Pi programs:                            *)
(*   src/raspberry/controller.py  Controller: command queue, worker,       *)
(*                                light toggle, stepper sweep              *)
(*   src/raspberry/client.py      EPaperDisplay, RGBLed, MorseBlinker      *)
(* Time is counted in ticks of UNIT (0.25 s); time.sleep(k*UNIT) takes k   *)
(* Tick steps of the sleeping thread.                                      *)
(***************************************************************************)
EXTENDS Integers, Sequences, FiniteSets, TLC

(***************************************************************************)
(* Bounds of the model (not program constants).                            *)
(***************************************************************************)
MaxCmds == 3        \* commands a producer puts on action_queue in one run
MaxUpdates == 2     \* calls of update_number in one run
MaxCalls == 3       \* render calls of one run
MaxScript == 4      \* commands of one stepper script
StartStride == 128  \* start positions p with p % StartStride in {0, 1, StartStride - 1}
MaxValue == 120     \* largest argument of a checked _number_to_morse_sequence call
MaxEvents == 1      \* globalCounter events delivered in one run of main()
MaxLatency == 20    \* the history counter latency stops counting here
MaxTally == 100     \* largest argument of a checked display_tally call

(***************************************************************************)
(* controller.py: configuration.                                           *)
(***************************************************************************)
LIGHT_PIN == 17
STEPPER_PINS == <<18, 23, 24, 25>>
STEPS_PER_REVOLUTION == 2048

CmdTypes == {"toggleLight", "activateStepper", "other"}

VARIABLES
    \* ---- controller.py ----
    pins,              \* MockGPIO.pins: pin -> value ('OUT', False/True, 0/1)
    stepper_position,  \* MockGPIO.stepper_position
    action_queue,      \* Controller.action_queue: Seq of [id, type]
    running,           \* Controller.running
    workerPc,          \* processor thread: "while","get","stepping","done","crashed"
    direction,         \* activate_stepper local
    stepsLeft,         \* iterations of the for loop still to run
    mainPc,            \* main thread: "run","joining","cleaned"
    enqueued,          \* history: type of every command put, in put order
    started,           \* history: ids whose execute_action has started
    completed,         \* history: ids whose execute_action has returned
    sweepFrom,         \* history: stepper_position when the running sweep began
    actHist,           \* history: [from, dir, to] of every finished activateStepper
    \* ---- client.py: EPaperDisplay ----
    epdFrame,          \* the frame the panel shows (last epd.display / Clear)
    lastCall,          \* history: arguments and files of the last render call
    dispCalls,         \* history: completed calls of display_counter_and_qr
    epdDisplays,       \* history: calls of epd.display
    \* ---- client.py: RGBLed, MorseBlinker ----
    led,               \* duty cycles <<r, g, b>> last commanded by set_color
    number,            \* MorseBlinker.number
    stop_event,        \* MorseBlinker._stop_event
    update_event,      \* MorseBlinker._update_event
    bPc,               \* blinker thread: "while","read","for","on","off","clear","exit"
    sequence,          \* run(): local sequence
    idx,               \* run(): position of the for loop in sequence (from 1)
    sleepLeft,         \* ticks of the blinker's current time.sleep still to pass
    updPc,             \* thread calling update_number: "idle","set"
    stopPc,            \* thread calling stop(): "idle","joining","returned"
    nUpd,              \* history: calls of update_number begun
    lastDone,          \* history: argument of the last update_number that returned
    pendingUpd,        \* history: an update_number returned, no LED-on since
    waiting,           \* history: update_number called, its sequence not yet begun
    latency,           \* history: ticks passed while waiting
    onTime,            \* history: ticks the LED has been on since set_color(on)
    cycleTime,         \* history: ticks since run() last computed its sequence
    stopAt,            \* history: LED state when stop() was called
    \* ---- client.py: one call of _number_to_morse_sequence ----
    morseArg,          \* the argument of the call
    morseOut,          \* None before the call, Some(returned list) after it
    \* ---- client.py: main() ----
    enable_led,        \* ENABLE_LED, the configuration switch of the LED path
    cPc,               \* main thread: "connect","wait","finally","join",
                       \*   "led_cleanup","clear","clearing","exited"
    exc,               \* the exception propagating out of main(), or None
    tlog,              \* history: the teardown calls made, in order
    hPc,               \* socket thread in on_global_counter: "idle","render",
                       \*   "update","set"
    count,             \* on_global_counter: the payload of the current/last call
    count_int,         \* on_global_counter: int(count), None when it raised
    hDid,              \* history: what the current/last handler call has done
    events,            \* history: globalCounter events delivered
    \* ---- client.py: one call of display_tally ----
    tallyArg,          \* the argument of the call
    tallyOut           \* None before the call, Some(what was drawn) after it

ctlVars == <<pins, stepper_position, action_queue, running, workerPc,
             direction, stepsLeft, mainPc, enqueued, started, completed,
             sweepFrom, actHist>>

dispVars == <<epdFrame, lastCall, dispCalls, epdDisplays>>

blinkVars == <<led, number, stop_event, update_event, bPc, sequence, idx,
               sleepLeft, updPc, stopPc, nUpd, lastDone, pendingUpd, waiting,
               latency, onTime, cycleTime, stopAt>>

morseVars == <<morseArg, morseOut>>

clientVars == <<enable_led, cPc, exc, tlog, hPc, count, count_int, hDid, events>>

tallyVars == <<tallyArg, tallyOut>>

vars == <<ctlVars, dispVars, blinkVars, morseVars, clientVars, tallyVars>>

nonCtlVars == <<dispVars, blinkVars, morseVars, clientVars, tallyVars>>
nonDispVars == <<ctlVars, blinkVars, morseVars, clientVars, tallyVars>>
nonBlinkVars == <<ctlVars, dispVars, morseVars, clientVars, tallyVars>>
nonMorseVars == <<ctlVars, dispVars, blinkVars, clientVars, tallyVars>>
nonTallyVars == <<ctlVars, dispVars, blinkVars, morseVars, clientVars>>

(***************************************************************************)
(* MockGPIO                                                                *)
(***************************************************************************)
NoPins == [p \in {} |-> 0]

\* MockGPIO.output / setup: self.pins[pin] = value
GpioOutput(p, pin, value) ==
    IF pin \in DOMAIN p
    THEN [p EXCEPT ![pin] = value]
    ELSE [q \in (DOMAIN p) \cup {pin} |-> IF q = pin THEN value ELSE p[q]]

\* Controller.setup_gpio: every pin set up as 'OUT', then driven False
\* (False == 0 in Python; the stepper pins are later written 0/1).
SetupGpio ==
    LET p0 == GpioOutput(GpioOutput(NoPins, LIGHT_PIN, "OUT"), LIGHT_PIN, FALSE)
        RECURSIVE SetupFrom(_, _)
        SetupFrom(p, i) ==
            IF i > Len(STEPPER_PINS) THEN p
            ELSE SetupFrom(GpioOutput(GpioOutput(p, STEPPER_PINS[i], "OUT"),
                                      STEPPER_PINS[i], 0), i + 1)
    IN  SetupFrom(p0, 1)

\* self.gpio.pins.get(LIGHT_PIN, False)
LightState(p) == IF LIGHT_PIN \in DOMAIN p THEN p[LIGHT_PIN] ELSE FALSE

\* Controller.toggle_light
ToggleLightAlwaysOn(p) == GpioOutput(p, LIGHT_PIN, TRUE)
toggle_light(p) == GpioOutput(p, LIGHT_PIN, ~LightState(p))

\* activate_stepper: steps = STEPS_PER_REVOLUTION // 2
HalfSteps == STEPS_PER_REVOLUTION \div 2

\* activate_stepper: direction = 1 if position < STEPS_PER_REVOLUTION // 2 else -1
DirectionAlwaysForward(pos) == 1
Direction(pos) == IF pos < STEPS_PER_REVOLUTION \div 2 THEN 1 ELSE -1

\* activate_stepper loop body, first statement
StepPosDouble(pos, dir) == (pos + 2 * dir) % STEPS_PER_REVOLUTION
StepPos(pos, dir) == (pos + dir) % STEPS_PER_REVOLUTION

\* Controller._step_sequence: the 4-phase full-step table
PhaseTable == << <<1, 0, 0, 0>>, <<0, 1, 0, 0>>, <<0, 0, 1, 0>>, <<0, 0, 0, 1>> >>

RECURSIVE WritePhase(_, _, _)
WritePhase(p, row, i) ==
    IF i > Len(STEPPER_PINS) THEN p
    ELSE WritePhase(GpioOutput(p, STEPPER_PINS[i], row[i]), row, i + 1)

\* the new phase asserted, the old one left as it was
StepSequenceNoClear(p, pos) == GpioOutput(p, STEPPER_PINS[(pos % 4) + 1], 1)
step_sequence(p, pos) == WritePhase(p, PhaseTable[(pos % 4) + 1], 1)

\* One iteration of the for loop of activate_stepper on the pair <<pos, pins>>
StepOnce(st, dir) ==
    LET np == StepPos(st[1], dir) IN <<np, step_sequence(st[2], np)>>

(***************************************************************************)
(* Controller: construction                                                *)
(***************************************************************************)
CtlInit ==
    /\ pins = SetupGpio
    /\ stepper_position = 0
    /\ action_queue = <<>>
    /\ running = TRUE
    /\ workerPc = "while"
    /\ direction = 0
    /\ stepsLeft = 0
    /\ mainPc = "run"
    /\ enqueued = <<>>
    /\ started = <<>>
    /\ completed = <<>>
    /\ sweepFrom = 0
    /\ actHist = <<>>

gpioVars == <<pins, stepper_position>>
loopVars == <<direction, stepsLeft, sweepFrom>>
histVars == <<enqueued, started, completed, actHist>>

\* queue.Queue: FIFO; get() returns the oldest item
QueueGetNewest(q) == q[Len(q)]
QueueGet(q) == Head(q)
QueueRest(q) == Tail(q)

\* a producer: controller.action_queue.put({'type': t}); never blocks
Enqueue ==
    /\ UNCHANGED nonCtlVars
    /\ Len(enqueued) < MaxCmds
    /\ \E t \in CmdTypes :
          /\ enqueued' = Append(enqueued, t)
          /\ action_queue' = Append(action_queue, [id |-> Len(enqueued) + 1, type |-> t])
    /\ UNCHANGED <<gpioVars, loopVars, running, workerPc, mainPc,
                   started, completed, actHist>>

\* process_actions: while self.running
WorkerCheckRunning ==
    /\ UNCHANGED nonCtlVars
    /\ workerPc = "while"
    /\ workerPc' = IF running THEN "get" ELSE "done"
    /\ UNCHANGED <<gpioVars, loopVars, histVars, action_queue, running, mainPc>>

\* process_actions: action = get(timeout=1) returns an item; execute_action(action)
\* up to the first iteration of the stepper loop
WorkerGet ==
    /\ UNCHANGED nonCtlVars
    /\ workerPc = "get"
    /\ action_queue # <<>>
    /\ LET a == QueueGet(action_queue) IN
         /\ action_queue' = QueueRest(action_queue)
         /\ started' = Append(started, a.id)
         /\ IF a.type = "toggleLight"
            THEN /\ pins' = toggle_light(pins)
                 /\ completed' = Append(completed, a.id)
                 /\ workerPc' = "while"
                 /\ UNCHANGED loopVars
            ELSE IF a.type = "activateStepper"
            THEN /\ direction' = Direction(stepper_position)
                 /\ stepsLeft' = HalfSteps
                 /\ sweepFrom' = stepper_position
                 /\ workerPc' = "stepping"
                 /\ UNCHANGED <<pins, completed>>
            ELSE /\ completed' = Append(completed, a.id)
                 /\ workerPc' = "while"
                 /\ UNCHANGED <<pins, loopVars>>
    /\ UNCHANGED <<stepper_position, running, mainPc, enqueued, actHist>>

\* process_actions: what the handler of the 1-second empty poll leaves the
\* thread doing.  get() raises queue.Empty; the clause "except Queue.Empty"
\* looks Empty up on the class queue.Queue (line 5 imports the class, not the
\* module), which has no such attribute: AttributeError ends the thread.
EmptyPollOutcome == "crashed"

WorkerTimeout ==
    /\ UNCHANGED nonCtlVars
    /\ workerPc = "get"
    /\ action_queue = <<>>
    /\ workerPc' = EmptyPollOutcome
    /\ UNCHANGED <<gpioVars, loopVars, histVars, action_queue, running, mainPc>>

\* activate_stepper: one iteration of the for loop
WorkerStep ==
    /\ UNCHANGED nonCtlVars
    /\ workerPc = "stepping"
    /\ stepsLeft > 0
    /\ LET st == StepOnce(<<stepper_position, pins>>, direction) IN
         /\ stepper_position' = st[1]
         /\ pins' = st[2]
         /\ stepsLeft' = stepsLeft - 1
         /\ IF stepsLeft = 1
            THEN /\ workerPc' = "while"
                 /\ completed' = Append(completed, started[Len(started)])
                 /\ actHist' = Append(actHist,
                        [from |-> sweepFrom, dir |-> direction, to |-> st[1]])
            ELSE UNCHANGED <<workerPc, completed, actHist>>
    /\ UNCHANGED <<action_queue, running, direction, sweepFrom, mainPc,
                   enqueued, started>>

\* Controller.cleanup: self.running = False
CleanupStop ==
    /\ UNCHANGED nonCtlVars
    /\ mainPc = "run"
    /\ running' = FALSE
    /\ mainPc' = "joining"
    /\ UNCHANGED <<gpioVars, loopVars, histVars, action_queue, workerPc>>

\* Controller.cleanup: self.processor.join(); self.gpio.cleanup()
CleanupJoin ==
    /\ UNCHANGED nonCtlVars
    /\ mainPc = "joining"
    /\ workerPc \in {"done", "crashed"}
    /\ pins' = NoPins
    /\ mainPc' = "cleaned"
    /\ UNCHANGED <<stepper_position, loopVars, histVars, action_queue,
                   running, workerPc>>

WorkerNext == WorkerCheckRunning \/ WorkerGet \/ WorkerTimeout \/ WorkerStep

CtlNext ==
    \/ Enqueue
    \/ WorkerCheckRunning
    \/ WorkerGet
    \/ WorkerTimeout
    \/ WorkerStep
    \/ CleanupStop
    \/ CleanupJoin

(***************************************************************************)
(* The stepper and the light as functions of the command sequence:         *)
(* execute_action called directly, command after command, from a           *)
(* stepper_position drawn from StartPositions.  The sweep itself runs      *)
(* through WorkerStep, the loop of activate_stepper.                       *)
(***************************************************************************)
StartPositions ==
    {p \in 0 .. (STEPS_PER_REVOLUTION - 1) : p % StartStride \in {0, 1, StartStride - 1}}

StepperInit ==
    /\ pins = SetupGpio
    /\ stepper_position \in StartPositions
    /\ action_queue = <<>>
    /\ running = TRUE
    /\ workerPc = "while"
    /\ direction = 0
    /\ stepsLeft = 0
    /\ mainPc = "run"
    /\ enqueued = <<>>
    /\ started = <<>>
    /\ completed = <<>>
    /\ sweepFrom = stepper_position
    /\ actHist = <<>>

\* execute_action({'type': 'toggleLight'})
ScriptToggle ==
    /\ UNCHANGED nonCtlVars
    /\ workerPc = "while"
    /\ Len(enqueued) < MaxScript
    /\ enqueued' = Append(enqueued, "toggleLight")
    /\ started' = Append(started, Len(enqueued) + 1)
    /\ completed' = Append(completed, Len(enqueued) + 1)
    /\ pins' = toggle_light(pins)
    /\ UNCHANGED <<stepper_position, loopVars, actHist,
                   action_queue, running, workerPc, mainPc>>

\* execute_action({'type': 'activateStepper'}) up to the first iteration
ScriptActivate ==
    /\ UNCHANGED nonCtlVars
    /\ workerPc = "while"
    /\ Len(enqueued) < MaxScript
    /\ enqueued' = Append(enqueued, "activateStepper")
    /\ started' = Append(started, Len(enqueued) + 1)
    /\ direction' = Direction(stepper_position)
    /\ stepsLeft' = HalfSteps
    /\ sweepFrom' = stepper_position
    /\ workerPc' = "stepping"
    /\ UNCHANGED <<gpioVars, completed, actHist, action_queue, running, mainPc>>

StepperNext == ScriptToggle \/ ScriptActivate \/ WorkerStep

(***************************************************************************)
(* client.py: EPaperDisplay.display_counter_and_qr                         *)
(***************************************************************************)
\* Python's None and a value that is not None
None == <<>>
Some(x) == <<x>>

\* counter values delivered by the server in a run
Counts == {5, 12}

\* panel geometry (epd2in13_V2: epd.width, epd.height)
EPD_WIDTH == 122
EPD_HEIGHT == 250

\* sizes of the image a file holds: the 24x24 icon, the 118x118 QR code, a
\* QR code larger than the bottom half
ICON_SIZE == 24
QR_SIZE == 118
QR_BIG == 200

Min(a, b) == IF a < b THEN a ELSE b

\* Image.open(path).convert("1") / except FileNotFoundError: None.  A file
\* is given by the side of the square image it holds, 0 when it is missing.
OpenImage(file) == IF file = 0 THEN None ELSE Some([w |-> file, h |-> file])

\* bottom half: resize if larger than the space, centre, paste
PlaceQr(qrImg) ==
    LET qr == qrImg[1]
        top_h == EPD_HEIGHT \div 2
        max_qr_dim == Min(EPD_WIDTH, EPD_HEIGHT - top_h)
        fit == IF qr.w > max_qr_dim \/ qr.h > max_qr_dim
               THEN [w |-> max_qr_dim, h |-> max_qr_dim] ELSE qr
    IN  [w |-> fit.w, h |-> fit.h,
         x |-> (EPD_WIDTH - fit.w) \div 2,
         y |-> top_h + (EPD_HEIGHT - top_h - fit.h) \div 2]

\* the image composed for number: text rows, icon beside the number, QR
ComposeCounter(n, icon, qr) ==
    [text |-> n,
     icon |-> icon,
     qr |-> IF qr = None THEN None ELSE Some(PlaceQr(qr)),
     rotate |-> 180]

\* whether the call reaches self.epd.display(...): the rotate and display
\* statements are inside the "if qr:" block
ReachesDisplayAlways(qr) == TRUE
ReachesDisplay(qr) == qr # None

DispInit ==
    /\ epdFrame = None
    /\ lastCall = None
    /\ dispCalls = 0
    /\ epdDisplays = 0

\* EPaperDisplay.display_counter_and_qr(number), with the icon file and the
\* QR file present or not at the time of the call
Render(n, iconFile, qrFile) ==
    LET icon == OpenImage(iconFile)
        qr == OpenImage(qrFile)
    IN  /\ lastCall' = Some([number |-> n, icon |-> iconFile, qr |-> qrFile])
        /\ dispCalls' = dispCalls + 1
        /\ IF ReachesDisplay(qr)
           THEN /\ epdFrame' = Some(ComposeCounter(n, icon, qr))
                /\ epdDisplays' = epdDisplays + 1
           ELSE UNCHANGED <<epdFrame, epdDisplays>>

DisplayCounterAndQr ==
    /\ UNCHANGED nonDispVars
    /\ dispCalls < MaxCalls
    /\ \E n \in Counts, iconFile \in {0, ICON_SIZE},
          qrFile \in {0, QR_SIZE, QR_BIG} :
          Render(n, iconFile, qrFile)

DispNext == DisplayCounterAndQr

(***************************************************************************)
(* client.py: EPaperDisplay.display_tally                                  *)
(***************************************************************************)
H_STROKE == 40
S_GAP == 6
G_GAP == 10
ROW_GAP == 8

\* img_land = Image.new("1", (self.height, self.width), 255), where
\* self.width, self.height = self.epd.height, self.epd.width
LandWidth == EPD_WIDTH
LandHeight == EPD_HEIGHT

\* the x of the strokes drawn by "for _ in range(remaining)" from x
SingleStrokes(x, y, k) == [i \in 1..k |-> [x |-> x + (i - 1) * S_GAP, y |-> y]]

\* if x + 4 * S_GAP > img_land.width: wrap to a new row
WrapsNever(x) == FALSE
Wraps(x) == x + 4 * S_GAP > LandWidth

\* the while loop of display_tally from the cursor (x, y) with `remaining`
\* still to draw; groups and singles are the marks drawn so far
RECURSIVE TallyLoop(_, _, _, _, _)
TallyLoop(x, y, remaining, groups, singles) ==
    IF ~(remaining > 0 /\ y + H_STROKE < LandHeight)
    THEN [groups |-> groups, singles |-> singles, left |-> remaining,
          displayed |-> TRUE]
    ELSE LET full == remaining >= 5
             x1 == IF full THEN x + 4 * S_GAP + G_GAP ELSE x + remaining * S_GAP
             g1 == IF full THEN Append(groups, [x |-> x, y |-> y]) ELSE groups
             s1 == IF full THEN singles ELSE singles \o SingleStrokes(x, y, remaining)
             r1 == IF full THEN remaining - 5 ELSE 0
         IN  IF Wraps(x1)
             THEN TallyLoop(0, y + H_STROKE + ROW_GAP, r1, g1, s1)
             ELSE TallyLoop(x1, y, r1, g1, s1)

display_tally(n) == TallyLoop(0, 0, n, <<>>, <<>>)

\* One call of display_tally with a non-negative argument.
TallyInit ==
    /\ tallyArg \in 0..MaxTally
    /\ tallyOut = None

TallyRest ==
    /\ tallyArg = 0
    /\ tallyOut = None

TallyCall ==
    /\ UNCHANGED nonTallyVars
    /\ tallyOut = None
    /\ tallyOut' = Some(display_tally(tallyArg))
    /\ UNCHANGED tallyArg

TallyNext == TallyCall

(***************************************************************************)
(* client.py: Morse timing, in ticks of UNIT (UNIT = 0.25 s)               *)
(***************************************************************************)
UNIT == 1
DOT == UNIT
DASH == 3 * UNIT
GAP_SYMBOL == UNIT
GAP_LETTER == 3 * UNIT
GAP_WORD == 7 * UNIT
\* time.sleep(1) of the idle poll: 1 s = 4 * 0.25 s
IDLE_POLL == 4 * UNIT

\* Morse code map for digits 0-9, each code as list(code)
MORSE_DIGITS ==
    [d \in {"0", "1", "2", "3", "4", "5", "6", "7", "8", "9"} |->
        CASE d = "0" -> <<"-", "-", "-", "-", "-">>
          [] d = "1" -> <<".", "-", "-", "-", "-">>
          [] d = "2" -> <<".", ".", "-", "-", "-">>
          [] d = "3" -> <<".", ".", ".", "-", "-">>
          [] d = "4" -> <<".", ".", ".", ".", "-">>
          [] d = "5" -> <<".", ".", ".", ".", ".">>
          [] d = "6" -> <<"-", ".", ".", ".", ".">>
          [] d = "7" -> <<"-", "-", ".", ".", ".">>
          [] d = "8" -> <<"-", "-", "-", ".", ".">>
          [] d = "9" -> <<"-", "-", "-", "-", ".">>]

DigitChars == <<"0", "1", "2", "3", "4", "5", "6", "7", "8", "9">>

\* list(str(number)): the decimal digits, most significant first, after a
\* "-" for a negative number
RECURSIVE NatDigits(_)
NatDigits(n) ==
    IF n < 10 THEN <<DigitChars[n + 1]>>
    ELSE Append(NatDigits(n \div 10), DigitChars[(n % 10) + 1])

StrList(n) == IF n < 0 THEN <<"-">> \o NatDigits(-n) ELSE NatDigits(n)

\* MORSE_DIGITS.get(d, "")
MorseGet(d) == IF d \in DOMAIN MORSE_DIGITS THEN MORSE_DIGITS[d] ELSE <<>>

\* the loop with a gap marker appended after the last digit as well
RECURSIVE MorseFromTrailingGap(_, _)
MorseFromTrailingGap(digits, i) ==
    IF i > Len(digits) THEN <<"/">>
    ELSE MorseGet(digits[i]) \o <<" ">> \o MorseFromTrailingGap(digits, i + 1)

\* MorseBlinker._number_to_morse_sequence
RECURSIVE MorseFrom(_, _)
MorseFrom(digits, i) ==
    IF i > Len(digits) THEN <<"/">>
    ELSE MorseGet(digits[i])
           \o (IF i < Len(digits) THEN <<" ">> ELSE <<>>)
           \o MorseFrom(digits, i + 1)

number_to_morse_sequence(n) == MorseFrom(StrList(n), 1)

\* One call of _number_to_morse_sequence with a non-negative argument.
MorseInit ==
    /\ morseArg \in 0..MaxValue
    /\ morseOut = None

MorseRest ==
    /\ morseArg = 0
    /\ morseOut = None

MorseCall ==
    /\ UNCHANGED nonMorseVars
    /\ morseOut = None
    /\ morseOut' = Some(number_to_morse_sequence(morseArg))
    /\ UNCHANGED morseArg

MorseNext == MorseCall

(***************************************************************************)
(* client.py: RGBLed and MorseBlinker, started as main() starts it         *)
(***************************************************************************)
LedOff == <<0, 0, 0>>
LedBlue == <<0, 0, 100>>

\* run(): the duration passed to _blink for a "." or a "-"
BlinkDurationLong(element) == IF element = "." THEN DOT ELSE DASH + GAP_SYMBOL
BlinkDuration(element) == IF element = "." THEN DOT ELSE DASH

\* _blink: where the thread is after set_color: the sleep, then off(),
\* whatever the stop event says
AfterSetColorAbort(stopped) == IF stopped THEN "exit" ELSE "off"
AfterSetColor(stopped) == "off"

BlinkInit ==
    /\ led = LedOff
    /\ number = Some(0)
    /\ stop_event = FALSE
    /\ update_event = FALSE
    /\ bPc = "while"
    /\ sequence = <<>>
    /\ idx = 0
    /\ sleepLeft = 0
    /\ updPc = "idle"
    /\ stopPc = "idle"
    /\ nUpd = 0
    /\ lastDone = None
    /\ pendingUpd = FALSE
    /\ waiting = FALSE
    /\ latency = 0
    /\ onTime = 0
    /\ cycleTime = 0
    /\ stopAt = None

flagVars == <<number, stop_event, update_event>>
callerVars == <<updPc, stopPc, nUpd, lastDone, stopAt>>

\* run(): while not self._stop_event.is_set()
BWhile ==
    /\ UNCHANGED nonBlinkVars
    /\ bPc = "while" /\ sleepLeft = 0
    /\ bPc' = IF stop_event THEN "exit" ELSE "read"
    /\ UNCHANGED <<led, flagVars, callerVars, sequence, idx, sleepLeft,
                   pendingUpd, waiting, latency, onTime, cycleTime>>

\* run(): the sequence computed from self.number at the top of the loop
SequenceForInitial(num) == number_to_morse_sequence(0)
SequenceFor(num) == number_to_morse_sequence(num[1])

\* run(): if self.number is None: sleep(1); continue
\*        sequence = self._number_to_morse_sequence(self.number)
BRead ==
    /\ UNCHANGED nonBlinkVars
    /\ bPc = "read"
    /\ IF number = None
       THEN /\ sleepLeft' = IDLE_POLL
            /\ bPc' = "while"
            /\ UNCHANGED <<sequence, idx, cycleTime>>
       ELSE /\ sequence' = SequenceFor(number)
            /\ idx' = 1
            /\ bPc' = "for"
            /\ cycleTime' = 0
            /\ UNCHANGED sleepLeft
    /\ UNCHANGED <<led, flagVars, callerVars, pendingUpd, waiting, latency, onTime>>

\* run(): one pass of "for element in sequence" up to the call it makes:
\* the end of the loop, the break, or the dispatch on element
BFor ==
    /\ UNCHANGED nonBlinkVars
    /\ bPc = "for" /\ sleepLeft = 0
    /\ IF idx > Len(sequence)
       THEN /\ bPc' = "clear"
            /\ UNCHANGED <<idx, sleepLeft, waiting>>
       ELSE IF stop_event \/ update_event
       THEN /\ bPc' = "clear"
            /\ UNCHANGED <<idx, sleepLeft, waiting>>
       ELSE /\ waiting' = IF idx = 1 /\ sequence = number_to_morse_sequence(number[1])
                          THEN FALSE ELSE waiting
            /\ IF sequence[idx] \in {".", "-"}
               THEN /\ bPc' = "on"
                    /\ UNCHANGED <<idx, sleepLeft>>
               ELSE /\ sleepLeft' = IF sequence[idx] = " " THEN GAP_LETTER ELSE GAP_WORD
                    /\ idx' = idx + 1
                    /\ UNCHANGED bPc
    /\ UNCHANGED <<led, flagVars, callerVars, sequence, pendingUpd, latency, onTime, cycleTime>>

\* _blink: self.led.set_color(0, 0, 100); time.sleep(duration)
BOn ==
    /\ UNCHANGED nonBlinkVars
    /\ bPc = "on"
    /\ led' = LedBlue
    /\ onTime' = 0
    /\ sleepLeft' = BlinkDuration(sequence[idx])
    /\ bPc' = AfterSetColor(stop_event)
    /\ pendingUpd' = FALSE
    /\ UNCHANGED <<flagVars, callerVars, sequence, idx, waiting, latency, cycleTime>>

\* _blink: self.led.off(); time.sleep(GAP_SYMBOL); then the next element
BOff ==
    /\ UNCHANGED nonBlinkVars
    /\ bPc = "off" /\ sleepLeft = 0
    /\ led' = LedOff
    /\ sleepLeft' = GAP_SYMBOL
    /\ idx' = idx + 1
    /\ bPc' = "for"
    /\ UNCHANGED <<flagVars, callerVars, sequence, pendingUpd, waiting, latency, onTime, cycleTime>>

\* run(): self._update_event.clear(); time.sleep(GAP_WORD)
BClear ==
    /\ UNCHANGED nonBlinkVars
    /\ bPc = "clear"
    /\ update_event' = FALSE
    /\ sleepLeft' = GAP_WORD
    /\ bPc' = "while"
    /\ UNCHANGED <<led, number, stop_event, callerVars, sequence, idx,
                   pendingUpd, waiting, latency, onTime, cycleTime>>

\* one UNIT of time passes: the blinker is asleep and no thread is inside
\* update_number (statements take no time next to UNIT)
Tick ==
    /\ UNCHANGED nonBlinkVars
    /\ sleepLeft > 0
    /\ updPc = "idle"
    /\ sleepLeft' = sleepLeft - 1
    /\ onTime' = IF led # LedOff THEN onTime + 1 ELSE onTime
    /\ latency' = IF waiting /\ ~stop_event /\ latency < MaxLatency
                  THEN latency + 1 ELSE latency
    /\ cycleTime' = cycleTime + 1
    /\ UNCHANGED <<led, flagVars, callerVars, bPc, sequence, idx, pendingUpd, waiting>>

\* update_number: self.number = new_number
UpdStore ==
    /\ UNCHANGED nonBlinkVars
    /\ updPc = "idle"
    /\ nUpd < MaxUpdates
    /\ \E v \in Counts : number' = Some(v)
    /\ nUpd' = nUpd + 1
    /\ updPc' = "set"
    /\ waiting' = TRUE
    /\ latency' = 0
    /\ UNCHANGED <<led, stop_event, update_event, bPc, sequence, idx, sleepLeft,
                   stopPc, lastDone, stopAt, pendingUpd, onTime, cycleTime>>

\* update_number: self._update_event.set()
UpdSet ==
    /\ UNCHANGED nonBlinkVars
    /\ updPc = "set"
    /\ update_event' = TRUE
    /\ updPc' = "idle"
    /\ lastDone' = number
    /\ pendingUpd' = TRUE
    /\ UNCHANGED <<led, number, stop_event, bPc, sequence, idx, sleepLeft,
                   stopPc, nUpd, stopAt, waiting, latency, onTime, cycleTime>>

\* stop(): self._stop_event.set()
StopSet ==
    /\ UNCHANGED nonBlinkVars
    /\ stopPc = "idle"
    /\ stop_event' = TRUE
    /\ stopPc' = "joining"
    /\ stopAt' = Some(led)
    /\ UNCHANGED <<led, number, update_event, bPc, sequence, idx, sleepLeft,
                   updPc, nUpd, lastDone, pendingUpd, waiting, latency, onTime, cycleTime>>

\* stop(): self.join() returns once run() has returned
StopJoin ==
    /\ UNCHANGED nonBlinkVars
    /\ stopPc = "joining"
    /\ bPc = "exit"
    /\ stopPc' = "returned"
    /\ UNCHANGED <<led, flagVars, bPc, sequence, idx, sleepLeft, updPc, nUpd,
                   lastDone, stopAt, pendingUpd, waiting, latency, onTime, cycleTime>>

BlinkerRun == BWhile \/ BRead \/ BFor \/ BOn \/ BOff \/ BClear \/ Tick

BlinkNext ==
    \/ BWhile
    \/ BRead
    \/ BFor
    \/ BOn
    \/ BOff
    \/ BClear
    \/ Tick
    \/ UpdStore
    \/ UpdSet
    \/ StopSet
    \/ StopJoin

(***************************************************************************)
(* client.py: main(), the globalCounter handler and the shutdown sequence  *)
(***************************************************************************)
\* payloads of a globalCounter event: None, a string, an integer
PyNone == [kind |-> "none", chars |-> <<>>, val |-> 0]
PyStr(cs) == [kind |-> "str", chars |-> cs, val |-> 0]
PyNum(v) == [kind |-> "int", chars |-> <<>>, val |-> v]

Payloads ==
    {PyNone, PyStr(<<"x">>), PyStr(<<"1", "2">>), PyStr(<<"-", "5">>),
     PyNum(5), PyNum(-5)}

\* the value of a string of decimal digits
RECURSIVE DigitsValue(_)
DigitsValue(cs) ==
    IF cs = <<>> THEN 0
    ELSE 10 * DigitsValue(SubSeq(cs, 1, Len(cs) - 1))
         + (CHOOSE d \in 0..9 : DigitChars[d + 1] = cs[Len(cs)])

IsDigits(cs) == cs # <<>> /\ \A i \in DOMAIN cs : cs[i] \in DOMAIN MORSE_DIGITS

\* int(count) inside try/except (ValueError, TypeError): Some(value), or
\* None when int() raised.  int() of a string takes an optional sign and
\* decimal digits; int(None) raises TypeError.
PyInt(p) ==
    CASE p.kind = "int" -> Some(p.val)
      [] p.kind = "none" -> None
      [] p.kind = "str" ->
            IF IsDigits(p.chars) THEN Some(DigitsValue(p.chars))
            ELSE IF p.chars # <<>> /\ p.chars[1] \in {"-", "+"} /\ IsDigits(Tail(p.chars))
            THEN Some((IF p.chars[1] = "-" THEN -1 ELSE 1) * DigitsValue(Tail(p.chars)))
            ELSE None

\* the handler goes on to render when int() returned, whatever the sign
Proceeds(ci) == ci # None

\* blinker = None: no thread exists when ENABLE_LED is False
BlinkAbsent ==
    /\ led = LedOff
    /\ number = None
    /\ stop_event = FALSE
    /\ update_event = FALSE
    /\ bPc = "none"
    /\ sequence = <<>>
    /\ idx = 0
    /\ sleepLeft = 0
    /\ updPc = "idle"
    /\ stopPc = "idle"
    /\ nUpd = 0
    /\ lastDone = None
    /\ pendingUpd = FALSE
    /\ waiting = FALSE
    /\ latency = 0
    /\ onTime = 0
    /\ cycleTime = 0
    /\ stopAt = None

\* main() up to the try block: display, led and blinker constructed, the
\* blinker started, the handlers registered
ClientInit ==
    /\ enable_led \in BOOLEAN
    /\ cPc = "connect"
    /\ exc = None
    /\ tlog = <<>>
    /\ hPc = "idle"
    /\ count = None
    /\ count_int = None
    /\ hDid = {}
    /\ events = 0

\* main() is not running
ClientRest ==
    /\ enable_led = FALSE
    /\ cPc = "exited"
    /\ exc = None
    /\ tlog = <<>>
    /\ hPc = "idle"
    /\ count = None
    /\ count_int = None
    /\ hDid = {}
    /\ events = 0

mainVars == <<enable_led, cPc, exc, tlog>>
handlerVars == <<hPc, count, count_int, hDid, events>>
blinkHist == <<pendingUpd, waiting, latency, onTime, cycleTime>>
blinkLoop == <<bPc, sequence, idx, sleepLeft>>
otherVars == <<ctlVars, morseVars, tallyVars>>

\* sio.connect(SERVER_URL, ...) returns
MConnect ==
    /\ cPc = "connect"
    /\ cPc' = "wait"
    /\ UNCHANGED <<otherVars, dispVars, blinkVars, handlerVars, enable_led, exc, tlog>>

\* sio.connect raises a connection error: not a KeyboardInterrupt, so the
\* finally block runs and the exception propagates
MConnectError ==
    /\ cPc = "connect"
    /\ cPc' = "finally"
    /\ exc' = Some("ConnectionError")
    /\ UNCHANGED <<otherVars, dispVars, blinkVars, handlerVars, enable_led, tlog>>

\* sio.wait() is interrupted: except KeyboardInterrupt, then finally
MInterrupt ==
    /\ cPc = "wait"
    /\ cPc' = "finally"
    /\ UNCHANGED <<otherVars, dispVars, blinkVars, handlerVars, enable_led, exc, tlog>>

\* sio.wait() returns: the connection has ended and its thread with it
MWaitReturns ==
    /\ cPc = "wait"
    /\ hPc = "idle"
    /\ cPc' = "finally"
    /\ UNCHANGED <<otherVars, dispVars, blinkVars, handlerVars, enable_led, exc, tlog>>

\* finally: if ENABLE_LED and blinker: blinker.stop() -- _stop_event.set()
MStop ==
    /\ cPc = "finally"
    /\ enable_led
    /\ stop_event' = TRUE
    /\ stopPc' = "joining"
    /\ stopAt' = Some(led)
    /\ tlog' = Append(tlog, "stop_event.set")
    /\ cPc' = "join"
    /\ UNCHANGED <<otherVars, dispVars, handlerVars, enable_led, exc, led, number,
                   update_event, blinkLoop, updPc, nUpd, lastDone, blinkHist>>

\* finally with ENABLE_LED False: both if statements are skipped
MSkipLed ==
    /\ cPc = "finally"
    /\ ~enable_led
    /\ cPc' = "clear"
    /\ UNCHANGED <<otherVars, dispVars, blinkVars, handlerVars, enable_led, exc, tlog>>

\* blinker.stop(): self.join() returns once run() has returned
MJoin ==
    /\ cPc = "join"
    /\ bPc = "exit"
    /\ stopPc' = "returned"
    /\ tlog' = Append(tlog, "join")
    /\ cPc' = "led_cleanup"
    /\ UNCHANGED <<otherVars, dispVars, handlerVars, enable_led, exc, led, flagVars,
                   blinkLoop, updPc, nUpd, lastDone, stopAt, blinkHist>>

\* blinker.stop() raises: a second KeyboardInterrupt arrives while join()
\* blocks; the finally block is left with the exception
MStopRaises ==
    /\ cPc = "join"
    /\ exc' = Some("blinker.stop")
    /\ cPc' = "exited"
    /\ UNCHANGED <<otherVars, dispVars, blinkVars, handlerVars, enable_led, tlog>>

\* finally: if ENABLE_LED and led: led.cleanup() -- self.off(), pwm.stop()
\* for every channel, GPIO.cleanup()
MLedCleanup ==
    /\ cPc = "led_cleanup"
    /\ led' = LedOff
    /\ tlog' = tlog \o <<"led.off", "pwm.stop", "GPIO.cleanup">>
    /\ cPc' = "clear"
    /\ UNCHANGED <<otherVars, dispVars, handlerVars, enable_led, exc, flagVars,
                   blinkLoop, callerVars, blinkHist>>

\* led.cleanup() raises in pwm.stop(), after self.off(): the finally block
\* is left with the exception
MLedCleanupRaises ==
    /\ cPc = "led_cleanup"
    /\ led' = LedOff
    /\ tlog' = Append(tlog, "led.off")
    /\ exc' = Some("led.cleanup")
    /\ cPc' = "exited"
    /\ UNCHANGED <<otherVars, dispVars, handlerVars, enable_led, flagVars,
                   blinkLoop, callerVars, blinkHist>>

\* finally: display.clear() is called: self.epd.Clear(0xFF) starts
MClearBegin ==
    /\ cPc = "clear"
    /\ tlog' = Append(tlog, "display.clear")
    /\ cPc' = "clearing"
    /\ UNCHANGED <<otherVars, dispVars, blinkVars, handlerVars, enable_led, exc>>

\* epd.Clear(0xFF) has refreshed the panel to white; main() returns or the
\* pending exception propagates, and the process ends
MClearEnd ==
    /\ cPc = "clearing"
    /\ epdFrame' = None
    /\ cPc' = "exited"
    /\ UNCHANGED <<otherVars, blinkVars, handlerVars, enable_led, exc, tlog,
                   lastCall, dispCalls, epdDisplays>>

\* a globalCounter event is delivered while main() is in sio.wait():
\* count_int = int(count), return on ValueError/TypeError
HReceive ==
    /\ cPc = "wait"
    /\ hPc = "idle"
    /\ events < MaxEvents
    /\ \E p \in Payloads :
          /\ count' = Some(p)
          /\ count_int' = PyInt(p)
          /\ hPc' = IF Proceeds(PyInt(p)) THEN "render" ELSE "idle"
    /\ hDid' = {}
    /\ events' = events + 1
    /\ UNCHANGED <<otherVars, dispVars, blinkVars, mainVars>>

\* display.display_counter_and_qr(count_int)
HRender ==
    /\ hPc = "render"
    /\ cPc # "exited"
    /\ \E iconFile \in {0, ICON_SIZE}, qrFile \in {0, QR_SIZE} :
          Render(count_int[1], iconFile, qrFile)
    /\ hDid' = hDid \cup {"render"}
    /\ hPc' = IF enable_led THEN "update" ELSE "idle"
    /\ UNCHANGED <<otherVars, blinkVars, mainVars, count, count_int, events>>

\* if ENABLE_LED: blinker.update_number(count_int) -- self.number = new_number
HUpdStore ==
    /\ hPc = "update"
    /\ cPc # "exited"
    /\ number' = Some(count_int[1])
    /\ nUpd' = nUpd + 1
    /\ updPc' = "set"
    /\ waiting' = TRUE
    /\ latency' = 0
    /\ hPc' = "set"
    /\ UNCHANGED <<otherVars, dispVars, mainVars, count, count_int, hDid, events,
                   led, stop_event, update_event, blinkLoop, stopPc, lastDone,
                   stopAt, pendingUpd, onTime, cycleTime>>

\* blinker.update_number(count_int) -- self._update_event.set(); the
\* handler returns
HUpdSet ==
    /\ hPc = "set"
    /\ cPc # "exited"
    /\ update_event' = TRUE
    /\ updPc' = "idle"
    /\ lastDone' = number
    /\ pendingUpd' = TRUE
    /\ hDid' = hDid \cup {"update_number"}
    /\ hPc' = "idle"
    /\ UNCHANGED <<otherVars, dispVars, mainVars, count, count_int, events,
                   led, number, stop_event, blinkLoop, stopPc, nUpd, stopAt,
                   waiting, latency, onTime, cycleTime>>

ClientNext ==
    \/ MConnect
    \/ MConnectError
    \/ MInterrupt
    \/ MWaitReturns
    \/ MStop
    \/ MSkipLed
    \/ MJoin
    \/ MStopRaises
    \/ MLedCleanup
    \/ MLedCleanupRaises
    \/ MClearBegin
    \/ MClearEnd
    \/ HReceive
    \/ HRender
    \/ HUpdStore
    \/ HUpdSet
    \/ BWhile
    \/ BRead
    \/ BFor
    \/ BOn
    \/ BOff
    \/ BClear
    \/ Tick

Init == CtlInit /\ DispInit /\ BlinkInit /\ MorseRest /\ ClientRest /\ TallyRest
Next == CtlNext
Spec == Init /\ [][Next]_vars

\* The worker thread is scheduled whenever it can take a step; the 1-second
\* poll timeout expires when the queue stays empty.
FairSpec == Spec /\ WF_vars(WorkerNext)

InitStepper == StepperInit /\ DispInit /\ BlinkInit /\ MorseRest /\ ClientRest /\ TallyRest
SpecStepper == InitStepper /\ [][StepperNext]_vars

SpecDisplay == Init /\ [][DispNext]_vars

InitMorse == CtlInit /\ DispInit /\ BlinkInit /\ MorseInit /\ ClientRest /\ TallyRest
SpecMorse == InitMorse /\ [][MorseNext]_vars

InitClient ==
    /\ CtlInit /\ DispInit /\ MorseRest /\ TallyRest /\ ClientInit
    /\ IF enable_led THEN BlinkInit ELSE BlinkAbsent
SpecClient == InitClient /\ [][ClientNext]_vars

InitTally == CtlInit /\ DispInit /\ BlinkInit /\ MorseRest /\ ClientRest /\ TallyInit
SpecTally == InitTally /\ [][TallyNext]_vars

SpecBlink == Init /\ [][BlinkNext]_vars

\* The blinker thread runs whenever it is not asleep, its sleeps end, a
\* thread inside update_number finishes the call, and a join on a finished
\* thread returns.
FairSpecBlink ==
    SpecBlink /\ WF_vars(BlinkerRun) /\ WF_vars(UpdSet) /\ WF_vars(StopJoin)

(***************************************************************************)
(* Properties of the controller                                            *)
(***************************************************************************)
Range(f) == {f[i] : i \in DOMAIN f}
NumToggles == Cardinality({i \in Range(completed) : enqueued[i] = "toggleLight"})

\* C1 (the claim as stated): every command put on action_queue while
\* cleanup() has not been called is eventually executed, also one put after
\* the queue stayed empty past the poll timeout.
C1_EveryCommandExecuted ==
    \A i \in 1 .. MaxCmds :
        (Len(enqueued) >= i /\ mainPc = "run") ~> (i \in Range(completed) \/ mainPc # "run")

\* C2: the worker executes the commands in put order, one at a time: the
\* k-th execute_action to start is that of the k-th command put, it returns
\* before the next starts, and the queue holds exactly the commands not yet
\* started, oldest first.
C2_FifoOrder ==
    /\ \A k \in 1 .. Len(started) : started[k] = k
    /\ Len(completed) <= Len(started)
    /\ Len(started) <= Len(completed) + 1
    /\ completed = SubSeq(started, 1, Len(completed))
    /\ (Len(started) = Len(completed) + 1) <=> (workerPc = "stepping")
    /\ Len(action_queue) = Len(enqueued) - Len(started)
    /\ \A k \in 1 .. Len(action_queue) :
          action_queue[k] = [id |-> Len(started) + k, type |-> enqueued[Len(started) + k]]

\* C2 witness: two commands executed, the second a sweep during which a
\* producer put a third that is still queued.
C2_Witness ==
    /\ Len(completed) = 2
    /\ enqueued[2] = "activateStepper"
    /\ Len(action_queue) = 1
    /\ workerPc = "while"

\* C9: of two consecutive activateStepper commands the second sweeps in the
\* opposite direction and ends where the first began, whatever toggleLight
\* commands run before, between or after them.
C9_TwoSweepsReturn ==
    \A k \in 1 .. (Len(actHist) - 1) :
        /\ actHist[k + 1].dir = -actHist[k].dir
        /\ actHist[k + 1].from = actHist[k].to
        /\ actHist[k + 1].to = actHist[k].from

\* C9 witness: toggle, sweep, toggle, sweep from a position in the upper half
\* that is not a multiple of the phase count.
C9_Witness ==
    /\ enqueued = <<"toggleLight", "activateStepper", "toggleLight", "activateStepper">>
    /\ Len(actHist) = 2
    /\ actHist[1].from > HalfSteps
    /\ actHist[1].from % 4 # 0
    /\ actHist[1].dir = -1
    /\ stepper_position = actHist[1].from

\* C10: until gpio.cleanup() the light pin holds its initial False flipped
\* once per executed toggleLight; sweeps and unknown commands leave it.
C10_LightParity ==
    mainPc # "cleaned" => (LightState(pins) = (NumToggles % 2 = 1))

\* C10 witness: two toggles and an unknown command executed, light back off.
C10_Witness ==
    /\ NumToggles = 2
    /\ Len(completed) = 3
    /\ LightState(pins) = FALSE
    /\ mainPc = "run"

(***************************************************************************)
(* Properties of the display                                               *)
(***************************************************************************)
\* C3 (the claim as stated): epd.display is called once for every call of
\* display_counter_and_qr, with a frame for that call's number, whether or
\* not the icon and the QR image could be loaded.
C3_DisplayOnEveryCall ==
    /\ epdDisplays = dispCalls
    /\ lastCall # None => (epdFrame # None /\ epdFrame[1].text = lastCall[1].number)

(***************************************************************************)
(* Properties of the blinker                                               *)
(***************************************************************************)
\* C4: stop() returns from wherever in the emission loop it is called; when
\* it has returned the thread has ended and the LED was last commanded off;
\* the thread never ends with the LED commanded on.
C4_StopEndsOff ==
    /\ [](stopPc = "returned" => (bPc = "exit" /\ led = LedOff))
    /\ [](bPc = "exit" => led = LedOff)
    /\ (stopPc = "joining" ~> stopPc = "returned")

\* C4 witness: stop() was called while the LED was on, and has returned.
C4_Witness == stopPc = "returned" /\ stopAt = Some(LedBlue)

\* C5 (the claim as stated): the first LED-on after update_number(v) has
\* returned is the first symbol of v's sequence (or of a still newer value's).
C5_NextPulseIsNew ==
    [][(bPc = "on" /\ led' = LedBlue /\ pendingUpd)
         => (/\ idx = 1
             /\ \/ sequence = number_to_morse_sequence(lastDone[1])
                \/ sequence = number_to_morse_sequence(number[1]))]_vars

\* C6 (the claim as stated): from the call of update_number(v) to the worker
\* beginning v's sequence at its first symbol no more than the longest
\* symbol wait, 7 * UNIT, passes.
C6_LatencyOneSymbol == waiting => latency <= GAP_WORD

\* C7: the LED is never on for more than 3 * UNIT; it is switched off after
\* exactly UNIT or 3 * UNIT, and set_color(on) is only issued while it is off.
C7_PulseLength ==
    /\ [](led # LedOff => onTime <= DASH)
    /\ [][(led # LedOff /\ led' = LedOff) => onTime \in {DOT, DASH}]_vars
    /\ [][(led' # LedOff /\ bPc = "on") => led = LedOff]_vars

\* C7 witness: a dash at its full length, of a value set by update_number,
\* with stop() called during the pulse.
C7_Witness ==
    /\ led = LedBlue /\ onTime = DASH
    /\ nUpd > 0 /\ sequence = number_to_morse_sequence(12)
    /\ stopAt = Some(LedBlue)

\* C8 (the claim as stated): until the first update_number the LED is never
\* commanded on.
C8_SilentUntilFirstValue == nUpd = 0 => led = LedOff

(***************************************************************************)
(* Properties of _number_to_morse_sequence                                 *)
(***************************************************************************)
\* the number of decimal digits of v and its k-th digit, by arithmetic
NumDigits(v) == CHOOSE k \in 1..8 : (v = 0 /\ k = 1) \/ (10^(k-1) <= v /\ v < 10^k)
DigitAt(v, k) == (v \div 10^(NumDigits(v) - k)) % 10
CountOf(seq, x) == Cardinality({i \in DOMAIN seq : seq[i] = x})

\* C11: for a non-negative v the returned list is, digit by digit in decimal
\* order, the digit's 5-symbol dot/dash code of MORSE_DIGITS, with exactly
\* digits(v)-1 gap markers " " (one between adjacent digits, none leading or
\* trailing) and exactly one end marker "/" as the last element; 0 gives five
\* dashes then "/", 5 gives five dots then "/".
C11_MorseShape ==
    morseOut # None =>
        LET v == morseArg
            out == morseOut[1]
            nd == NumDigits(v)
        IN  /\ Len(out) = 5 * nd + (nd - 1) + 1
            /\ \A k \in 1..nd :
                  LET code == SubSeq(out, 6 * (k - 1) + 1, 6 * (k - 1) + 5)
                  IN  /\ code = MORSE_DIGITS[DigitChars[DigitAt(v, k) + 1]]
                      /\ \A j \in 1..5 : code[j] \in {".", "-"}
            /\ \A k \in 1..(nd - 1) : out[6 * k] = " "
            /\ CountOf(out, " ") = nd - 1
            /\ out[Len(out)] = "/"
            /\ CountOf(out, "/") = 1
            /\ v = 0 => out = <<"-", "-", "-", "-", "-", "/">>
            /\ v = 5 => out = <<".", ".", ".", ".", ".", "/">>

\* a three-digit argument has been encoded
C11_Witness == morseOut # None /\ morseArg = 105 /\ Len(morseOut[1]) = 18

(***************************************************************************)
(* Properties of main(): the handler and the shutdown sequence             *)
(***************************************************************************)
\* the payload can be coerced to a non-negative integer
NonNegCoercible(p) == PyInt(p) # None /\ PyInt(p)[1] >= 0

\* C12 (the claim as stated): for a payload that cannot be coerced to a
\* non-negative integer (a non-numeric string, None, a payload that coerces
\* to a negative integer) on_global_counter returns at once: no panel render,
\* no update_number call, the blinker's number and flag untouched.
C12_InvalidDiscarded ==
    (count # None /\ ~NonNegCoercible(count[1])) =>
        /\ hPc = "idle"
        /\ hDid = {}
        /\ (lastCall # None => lastCall[1].number >= 0)
        /\ (number # None => number[1] >= 0)

InLog(e) == \E i \in DOMAIN tlog : tlog[i] = e
Before(a, b) == \A i, j \in DOMAIN tlog : (tlog[i] = a /\ tlog[j] = b) => i < j

\* C13 (the claim as stated): on shutdown with the LED enabled the blinker
\* is stopped and joined first, then the LED is driven off, then
\* display.clear() releases the panel, and only after that GPIO.cleanup()
\* releases the pins.
C13_TeardownOrder ==
    enable_led =>
        /\ Before("stop_event.set", "join")
        /\ Before("join", "led.off")
        /\ Before("led.off", "display.clear")
        /\ Before("display.clear", "GPIO.cleanup")
        /\ (InLog("GPIO.cleanup") => InLog("display.clear"))

\* C14 (the claim as stated): once teardown of a resource has begun no
\* worker writes to it: after display.clear() no handler call reaches
\* epd.display, after led.cleanup() has started the blinker issues no
\* set_color, after Controller.cleanup() has reached gpio.cleanup() the
\* worker performs no gpio.output.
C14_NoWriteAfterTeardown ==
    [][ /\ (InLog("display.clear") => epdDisplays' = epdDisplays)
        /\ (InLog("led.off") => (led' = led /\ bPc \in {"exit", "none"}))
        /\ (mainPc = "cleaned" => pins' = pins) ]_vars

\* C15 (the claim as stated): display.clear() is invoked on every exit path
\* of main(): KeyboardInterrupt, sio.wait() returning, a connection error
\* raised by sio.connect, a failure raised by blinker.stop() or led.cleanup().
C15_ClearOnEveryExit == cPc = "exited" => InLog("display.clear")

(***************************************************************************)
(* Properties of display_tally                                             *)
(***************************************************************************)
\* rows whose strokes satisfy y + H_STROKE < height, and five-groups placed
\* in a row before the cursor wraps
TallyRows == Cardinality({k \in 0..LandHeight : k * (H_STROKE + ROW_GAP) + H_STROKE < LandHeight})
GroupsPerRow == CHOOSE k \in 1..LandWidth :
    /\ k * (4 * S_GAP + G_GAP) + 4 * S_GAP > LandWidth
    /\ \A j \in 1..(k - 1) : j * (4 * S_GAP + G_GAP) + 4 * S_GAP <= LandWidth
TallyCapacity == 5 * TallyRows * GroupsPerRow

\* C16: display_tally(n) terminates for every n >= 0 and draws groups of
\* five: when n fits on the panel, floor(n/5) five-groups then n mod 5 single
\* strokes (7: one group and 2 singles, 0: a blank bitmap); a larger n is
\* truncated, only rows with y + H_STROKE < height are drawn, so the number
\* of rows is bounded by a constant.
C16_TallyShape ==
    tallyOut # None =>
        LET n == tallyArg
            out == tallyOut[1]
            marks == {out.groups[i] : i \in DOMAIN out.groups}
                       \cup {out.singles[i] : i \in DOMAIN out.singles}
        IN  /\ out.displayed
            /\ 5 * Len(out.groups) + Len(out.singles) + out.left = n
            /\ (n <= TallyCapacity) =>
                  /\ out.left = 0
                  /\ Len(out.groups) = n \div 5
                  /\ Len(out.singles) = n % 5
            /\ (n > TallyCapacity) =>
                  /\ out.left > 0
                  /\ Len(out.groups) = TallyRows * GroupsPerRow
            /\ \A m \in marks : m.y >= 0 /\ m.y + H_STROKE < LandHeight
            /\ \A i \in DOMAIN out.groups :
                  out.groups[i].x >= 0 /\ out.groups[i].x + 3 * S_GAP < LandWidth
            /\ \A i \in DOMAIN out.singles :
                  out.singles[i].x >= 0 /\ out.singles[i].x < LandWidth
            /\ Cardinality({m.y : m \in marks}) <= TallyRows
            /\ (n = 7) => (Len(out.groups) = 1 /\ Len(out.singles) = 2)
            /\ (n = 0) => marks = {}

\* a call that is truncated: more than fits, every row full
C16_Witness ==
    /\ tallyOut # None
    /\ tallyArg > TallyCapacity
    /\ tallyOut[1].left > 0
    /\ Len(tallyOut[1].groups) = 15

(***************************************************************************)
(* Properties of the stepper sweep                                         *)
(***************************************************************************)
\* C17: an activateStepper command fixes its direction once, from the
\* position it starts at, and takes exactly STEPS_PER_REVOLUTION/2 steps;
\* the position moves by one step modulo STEPS_PER_REVOLUTION at every step,
\* stays in [0, STEPS_PER_REVOLUTION), and mid-command equals the start
\* position plus direction times the steps taken so far, modulo
\* STEPS_PER_REVOLUTION.
C17_SweepInvariant ==
    LET S == STEPS_PER_REVOLUTION
        DirOf(from) == IF from < S \div 2 THEN 1 ELSE -1
    IN  /\ stepper_position \in 0..(S - 1)
        /\ workerPc = "stepping" =>
              /\ direction = DirOf(sweepFrom)
              /\ stepsLeft \in 1..(S \div 2)
              /\ stepper_position =
                    (sweepFrom + direction * ((S \div 2) - stepsLeft) + S) % S
        /\ \A k \in DOMAIN actHist :
              /\ actHist[k].dir = DirOf(actHist[k].from)
              /\ actHist[k].to =
                    (actHist[k].from + actHist[k].dir * (S \div 2) + S) % S

\* a reverse sweep from the last position of the range, one step from its end
C17_Witness ==
    /\ workerPc = "stepping"
    /\ sweepFrom = STEPS_PER_REVOLUTION - 1
    /\ direction = -1
    /\ stepsLeft = 1
    /\ stepper_position = STEPS_PER_REVOLUTION \div 2

\* a call of _step_sequence has completed and the pins are not yet released
Stepped ==
    /\ mainPc # "cleaned"
    /\ actHist # <<>> \/ (workerPc = "stepping" /\ stepsLeft < STEPS_PER_REVOLUTION \div 2)
Asserted == {i \in 0..3 : pins[STEPPER_PINS[i + 1]] = 1}

\* C20: after every completed _step_sequence call exactly one of the four
\* stepper pins is asserted, the one whose index is stepper_position mod 4,
\* and consecutive steps energise adjacent phases in the command's direction.
C20_OnePhase ==
    /\ [](Stepped => Asserted = {stepper_position % 4})
    /\ [][(Stepped /\ stepper_position' # stepper_position) =>
            Asserted' = {((CHOOSE i \in Asserted : TRUE) + direction' + 4) % 4}]_vars

\* in the middle of a reverse sweep, phase 3 energised
C20_Witness ==
    /\ Stepped
    /\ workerPc = "stepping"
    /\ direction = -1
    /\ stepper_position % 4 = 3
    /\ Asserted = {3}

(***************************************************************************)
(* Properties of the blinker: convergence and period                       *)
(***************************************************************************)
\* the worker has run the whole for loop over the sequence of the current
\* number and is about to clear the flag
EmittedCurrent ==
    /\ bPc = "clear"
    /\ idx > Len(sequence)
    /\ sequence = number_to_morse_sequence(number[1])

\* C18: after the last of finitely many update_number calls, with value v,
\* the worker eventually emits the complete sequence of v from its first
\* symbol and from then on emits only v's sequence, whatever the
\* interleaving of the calls with the worker's reads and its check and clear
\* of the flag (while stop() is not called).
C18_ConvergesToLatest ==
    /\ <>[](stop_event \/ (/\ updPc = "idle"
                           /\ ~update_event
                           /\ sequence = number_to_morse_sequence(number[1])))
    /\ []<>(stop_event \/ EmittedCurrent)

\* both update_number calls made, the second superseding the first, and the
\* worker through the whole sequence of the second value
C18_Witness ==
    /\ nUpd = MaxUpdates
    /\ ~stop_event
    /\ number = Some(12)
    /\ EmittedCurrent

\* the sum of the per-symbol durations of a sequence
RECURSIVE SeqDuration(_)
SeqDuration(seq) ==
    IF seq = <<>> THEN 0
    ELSE (CASE Head(seq) = "." -> UNIT + UNIT
            [] Head(seq) = "-" -> 3 * UNIT + UNIT
            [] Head(seq) = " " -> 3 * UNIT
            [] Head(seq) = "/" -> 7 * UNIT)
         + SeqDuration(Tail(seq))

\* C19 (the claim as stated): a sequence that was emitted in full is started
\* again exactly the sum of its per-symbol durations after it was started
\* (dot UNIT + UNIT, dash 3 UNIT + UNIT, inter-digit gap 3 UNIT, end gap
\* 7 UNIT): no idle time follows the end gap.
C19_PeriodIsSum ==
    [][(/\ bPc = "read" /\ bPc' = "for"
        /\ sequence # <<>>
        /\ idx > Len(sequence))
       => cycleTime = SeqDuration(sequence)]_vars

====
